---- MODULE Spec2Model ----
(***************************************************************************)
(* Behaviour-injection pipeline of the falling-sand LLM integration:       *)
(* sanitizer, rewriter, execution wrapper, particle registry and the       *)
(* generation front end (custom-particles.js, openai.js, llm-ui.js).       *)
(*                                                                         *)
(* Fragment texts are TLA+ strings; a character is a string of length 1.   *)
(***************************************************************************)
EXTENDS Integers, Sequences, FiniteSets, TLC

VARIABLES
  customElementColors,   \* custom-particles.js: name -> colorId
  customElementActions,  \* custom-particles.js: colorId -> callable
  nextCustomElementIdx,  \* custom-particles.js: the id counter
  menuNames,             \* engine: colorId -> menu name (the custom entries)
  elements,              \* engine: the ids appended to the element list
  elementActions,        \* engine: the callables appended to the action list
  customParticles,       \* openai.js: name -> stored description
  initialized,           \* openai.js: config.initialized
  submitDisabled,        \* llm-ui.js: llmSubmitButton.disabled
  requests,              \* generation requests, in submission order
  last,                  \* the operation that acted last and its outcome
  tIn,      \* text under test: the fragment handed to the text functions
  tName,    \* text under test: the particle name
  tStage,   \* which text function acted last
  tOut,     \* its result
  tOut2,    \* a second result (second sanitizer pass / compile verdict)
  jIn,      \* color under test: the three values of the answer, as String renders them
  jOut,     \* the channels generateParticle makes of them
  cIn,      \* color under test: three integer channels
  cOut,     \* the color adjustColorForUniqueness returns
  gIn,      \* cell under test: its index and whether fire touches it
  gOut      \* what the explosion template did there

(***************************************************************************)
(* Character classes of the JavaScript regular expressions in the source.  *)
(***************************************************************************)
Space == {" ", "\n", "\t", "\r"}

Upper == {"A","B","C","D","E","F","G","H","I","J","K","L","M",
          "N","O","P","Q","R","S","T","U","V","W","X","Y","Z"}

Lower == {"a","b","c","d","e","f","g","h","i","j","k","l","m",
          "n","o","p","q","r","s","t","u","v","w","x","y","z"}

Digit == {"0","1","2","3","4","5","6","7","8","9"}

\* \w
Word == Upper \cup Lower \cup Digit \cup {"_"}

\* [A-Z_]
UpperUnderscore == Upper \cup {"_"}

Min(S) == CHOOSE a \in S : \A b \in S : a <= b

\* s[i], or "" outside the text
Ch(s, i) == IF i >= 1 /\ i <= Len(s) THEN SubSeq(s, i, i) ELSE ""

\* s.substring(i-1) / s.substring(i-1, j) with 1-based inclusive bounds
Sub(s, i, j) == IF i > j THEN "" ELSE SubSeq(s, i, j)

StartsAt(s, i, lit) ==
  /\ i >= 1
  /\ i + Len(lit) - 1 <= Len(s)
  /\ SubSeq(s, i, i + Len(lit) - 1) = lit

\* first position >= i whose character is outside cls (greedy class run)
RECURSIVE SkipClass(_, _, _)
SkipClass(s, i, cls) ==
  IF i <= Len(s) /\ Ch(s, i) \in cls THEN SkipClass(s, i + 1, cls) ELSE i

\* \b between s[i-1] and s[i]
WordBoundary(s, i) == (Ch(s, i - 1) \in Word) # (Ch(s, i) \in Word)

(***************************************************************************)
(* A pattern is a sequence of elements: a literal, a class run of one or   *)
(* more, a class run of any length, or a word boundary.  In every pattern  *)
(* of the source the element after a class run cannot start with a        *)
(* character of that class, so the greedy run is the only possible match.  *)
(* MatchEnd is the position just past the match starting at i, 0 if none.  *)
(***************************************************************************)
Lit(v) == [k |-> "lit", lit |-> v, cls |-> {}]
Plus(c) == [k |-> "plus", lit |-> "", cls |-> c]
Star(c) == [k |-> "star", lit |-> "", cls |-> c]
Boundary == [k |-> "wb", lit |-> "", cls |-> {}]

RECURSIVE MatchEnd(_, _, _, _)
MatchEnd(pat, k, s, i) ==
  IF k > Len(pat) THEN i
  ELSE LET e == pat[k] IN
    CASE e.k = "lit" ->
           IF StartsAt(s, i, e.lit) THEN MatchEnd(pat, k + 1, s, i + Len(e.lit)) ELSE 0
      [] e.k = "plus" ->
           LET j == SkipClass(s, i, e.cls)
           IN IF j > i THEN MatchEnd(pat, k + 1, s, j) ELSE 0
      [] e.k = "star" -> MatchEnd(pat, k + 1, s, SkipClass(s, i, e.cls))
      [] e.k = "wb" -> IF WordBoundary(s, i) THEN MatchEnd(pat, k + 1, s, i) ELSE 0

\* String.prototype.replace(/pat/g, rep): leftmost matches, left to right,
\* the text produced by a replacement is not scanned again.
MinOrZero(S) == IF S = {} THEN 0 ELSE Min(S)

\* the start of the leftmost match at or after pos, 0 if there is none
FirstMatch(pat, s, pos) == MinOrZero({i \in pos..Len(s) : MatchEnd(pat, 1, s, i) > 0})

RECURSIVE ReplaceFrom(_, _, _, _)
ReplaceNext(pat, rep, s, pos, i) ==
  IF i = 0 THEN Sub(s, pos, Len(s))
  ELSE Sub(s, pos, i - 1) \o rep \o ReplaceFrom(pat, rep, s, MatchEnd(pat, 1, s, i))

ReplaceFrom(pat, rep, s, pos) == ReplaceNext(pat, rep, s, pos, FirstMatch(pat, s, pos))

ReplaceAll(pat, rep, s) == ReplaceFrom(pat, rep, s, 1)

\* String.prototype.includes
Includes(s, lit) == \E i \in 1..Len(s) : StartsAt(s, i, lit)

\* String.prototype.trim
RECURSIVE TrimEnd(_)
TrimEnd(s) ==
  IF Len(s) > 0 /\ Ch(s, Len(s)) \in Space THEN TrimEnd(Sub(s, 1, Len(s) - 1)) ELSE s

TrimStart(t) == Sub(t, SkipClass(t, 1, Space), Len(t))

Trim(s) == TrimStart(TrimEnd(s))

\* a left-to-right scan of s[lo..hi] carrying acc, split in halves so that the
\* evaluation stays shallow (the test on left makes TLC compute it first)
\* F(v) with v evaluated before F is entered.  The evaluator hands arguments
\* over unevaluated; without this a pipeline of text operations is evaluated
\* as one nest as deep as the pipeline is long.
Then(F(_), v) == IF v = v THEN F(v) ELSE F(v)

RECURSIVE FoldRange(_, _, _, _, _)
FoldRange(Step(_, _, _), s, lo, hi, acc) ==
  IF lo > hi THEN acc
  ELSE IF lo = hi THEN Step(acc, s, lo)
  ELSE LET Rest(left) == FoldRange(Step, s, ((lo + hi) \div 2) + 1, hi, left)
       IN Then(Rest, FoldRange(Step, s, lo, (lo + hi) \div 2, acc))

(***************************************************************************)
(* sanitizeActionCode: ten global replacements, applied in this order.     *)
(***************************************************************************)
PatFunctionDef == <<Lit("function"), Plus(Space), Plus(Word), Star(Space), Lit("(")>>
PatWhile == <<Lit("while"), Star(Space), Lit("(")>>
PatFor == <<Lit("for"), Star(Space), Lit("(")>>
PatEval == <<Lit("eval"), Star(Space), Lit("(")>>
PatNewFunction == <<Lit("new"), Plus(Space), Lit("Function")>>

\* the replacements of sanitizeActionCode, in the order the code applies them
SanitizeRules ==
  << [pat |-> PatFunctionDef, rep |-> ""],
     [pat |-> PatWhile, rep |-> "if("],
     [pat |-> PatFor, rep |-> "if("],
     [pat |-> PatEval, rep |-> "console.log("],
     [pat |-> PatNewFunction, rep |-> "console.log"],
     [pat |-> <<Lit("setTimeout")>>, rep |-> "console.log"],
     [pat |-> <<Lit("setInterval")>>, rep |-> "console.log"],
     [pat |-> <<Lit("window.")>>, rep |-> "void_"],
     [pat |-> <<Lit("document.")>>, rep |-> "void_"],
     [pat |-> <<Lit("globalThis.")>>, rep |-> "void_"] >>

RECURSIVE ApplyRules(_, _, _)
ApplyRules(rules, k, code) ==
  IF k > Len(rules) THEN code
  ELSE LET Rest(c) == ApplyRules(rules, k + 1, c)
       IN Then(Rest, ReplaceAll(rules[k].pat, rules[k].rep, code))

sanitizeActionCode(code) == ApplyRules(SanitizeRules, 1, code)

(***************************************************************************)
(* String helpers used by the rewriter.                                    *)
(***************************************************************************)
UpperOf == [c \in Lower |-> CASE c = "a" -> "A" [] c = "b" -> "B" [] c = "c" -> "C"
    [] c = "d" -> "D" [] c = "e" -> "E" [] c = "f" -> "F" [] c = "g" -> "G"
    [] c = "h" -> "H" [] c = "i" -> "I" [] c = "j" -> "J" [] c = "k" -> "K"
    [] c = "l" -> "L" [] c = "m" -> "M" [] c = "n" -> "N" [] c = "o" -> "O"
    [] c = "p" -> "P" [] c = "q" -> "Q" [] c = "r" -> "R" [] c = "s" -> "S"
    [] c = "t" -> "T" [] c = "u" -> "U" [] c = "v" -> "V" [] c = "w" -> "W"
    [] c = "x" -> "X" [] c = "y" -> "Y" [] OTHER -> "Z"]

LowerOf == [c \in Upper |-> CHOOSE d \in Lower : UpperOf[d] = c]

UpperStep(acc, s, i) ==
  LET c == Ch(s, i) IN acc \o (IF c \in Lower THEN UpperOf[c] ELSE c)

LowerStep(acc, s, i) ==
  LET c == Ch(s, i) IN acc \o (IF c \in Upper THEN LowerOf[c] ELSE c)

\* String.prototype.toUpperCase, String.prototype.toLowerCase
toUpperCase(s) == FoldRange(UpperStep, s, 1, Len(s), "")

toLowerCase(s) == FoldRange(LowerStep, s, 1, Len(s), "")

\* String.prototype.replace(lit, rep) with a string pattern: the first occurrence
ReplaceFirst(s, lit, rep) ==
  LET M == {i \in 1..Len(s) : StartsAt(s, i, lit)}
  IN IF M = {} THEN s
     ELSE LET i == Min(M)
          IN Sub(s, 1, i - 1) \o rep \o Sub(s, i + Len(lit), Len(s))

(***************************************************************************)
(* enhanceCodeBasedOnName and its three category templates.                *)
(***************************************************************************)
HairTemplate(particleName, elementColor) ==
  "\n"
  \o "      // "
  \o particleName
  \o " behavior - strands that hang and can be affected by elements\n"
  \o "      if (adjacent(x, i, FIRE)) {\n"
  \o "        // Burns quickly when exposed to fire\n"
  \o "        if (random() < 0.8) {\n"
  \o "          gameImagedata32[i] = FIRE;\n"
  \o "        }\n"
  \o "      } else if (adjacent(x, i, WATER)) {\n"
  \o "        // Gets wet and clumps together\n"
  \o "        doGravity(x, y, i, false, 0.95);\n"
  \o "      } else {\n"
  \o "        // Normal behavior - strands hang and can move slightly\n"
  \o "        if (below(y, i, BACKGROUND) && random() < 0.2) {\n"
  \o "          // Strands can drift slightly to sides\n"
  \o "          if (random() < 0.5 && gameImagedata32[i+1] === BACKGROUND) {\n"
  \o "            gameImagedata32[i] = BACKGROUND;\n"
  \o "            gameImagedata32[i+1] = "
  \o ToString(elementColor)
  \o ";\n"
  \o "          } else if (gameImagedata32[i-1] === BACKGROUND) {\n"
  \o "            gameImagedata32[i] = BACKGROUND;\n"
  \o "            gameImagedata32[i-1] = "
  \o ToString(elementColor)
  \o ";\n"
  \o "          }\n"
  \o "        } else {\n"
  \o "          // Falls but can catch on things\n"
  \o "          doGravity(x, y, i, true, 0.7);\n"
  \o "        }\n"
  \o "      }\n"
  \o "    "

GasTemplate(particleName) ==
  "\n"
  \o "      // "
  \o particleName
  \o " - gaseous substance that rises and dissipates\n"
  \o "      doRise(x, y, i, 0.9, 0.7);\n"
  \o "      \n"
  \o "      // Gradually disappears as it rises\n"
  \o "      if (random() < 0.03) {\n"
  \o "        gameImagedata32[i] = BACKGROUND;\n"
  \o "      }\n"
  \o "      \n"
  \o "      // Affected by heat/fire\n"
  \o "      if (adjacent(x, i, FIRE) && random() < 0.5) {\n"
  \o "        // More likely to rise faster near heat\n"
  \o "        doRise(x, y, i, 1.0, 0.9);\n"
  \o "      }\n"
  \o "    "

LiquidTemplate(particleName, name) ==
  "\n"
  \o "      // "
  \o particleName
  \o " - liquid with unique properties\n"
  \o "      // Liquid dynamics - flows and spreads\n"
  \o "      doDensityLiquid(x, y, i, "
  \o (IF Includes(name, "OIL") THEN "WATER" ELSE "SAND")
  \o ", 0.9, 0.7);\n"
  \o "      \n"
  \o "      // Interaction with fire\n"
  \o "      if (adjacent(x, i, FIRE) && random() < 0.1) {\n"
  \o "        // Some liquids are flammable, some extinguish fire\n"
  \o "        "
  \o (IF Includes(name, "OIL") THEN "gameImagedata32[i] = FIRE;" ELSE "gameImagedata32[i] = STEAM;")
  \o "\n"
  \o "      }\n"
  \o "    "

ExplosionTemplate(code) ==
  "\n"
  \o "        // Check for contact with fire for explosion\n"
  \o "        if (adjacent(x, i, FIRE) || below(y, i, FIRE) || above(y, i, FIRE)) {\n"
  \o "          // Create explosion\n"
  \o "          gameImagedata32[i] = FIRE;\n"
  \o "          // Set surrounding pixels to FIRE\n"
  \o "          if (i+1 < gameImagedata32.length) gameImagedata32[i+1] = FIRE;\n"
  \o "          if (i-1 >= 0) gameImagedata32[i-1] = FIRE;\n"
  \o "          if (i+width < gameImagedata32.length) gameImagedata32[i+width] = FIRE;\n"
  \o "          if (i-width >= 0) gameImagedata32[i-width] = FIRE;\n"
  \o "        } else {\n"
  \o "          // Default behavior\n"
  \o "          "
  \o code
  \o "\n"
  \o "        }\n"
  \o "      "

InnerWrapper(actionCode) ==
  "\n"
  \o "        try {\n"
  \o "          // Default to simple behavior as fallback with small probability\n"
  \o "          if (Math.random() < 0.1) {\n"
  \o "            doGravity(x, y, i, true, 0.9);\n"
  \o "            return;\n"
  \o "          }\n"
  \o "          \n"
  \o "          // Custom particle code below\n"
  \o "          "
  \o actionCode
  \o "\n"
  \o "        } catch (error) {\n"
  \o "          console.error(\"Error in particle action:\", error);\n"
  \o "          // Default fallback behavior\n"
  \o "          doGravity(x, y, i, true, 1.0);\n"
  \o "        }\n"
  \o "      "

InnerWrapperUpdate(actionCode) ==
  "\n"
  \o "          try {\n"
  \o "            // Default to simple behavior as fallback\n"
  \o "            if (Math.random() < 0.1) {\n"
  \o "              doGravity(x, y, i, true, 0.9);\n"
  \o "              return;\n"
  \o "            }\n"
  \o "            \n"
  \o "            // Custom particle code below\n"
  \o "            "
  \o actionCode
  \o "\n"
  \o "          } catch (error) {\n"
  \o "            console.error(\"Error in particle action:\", error);\n"
  \o "            // Default fallback behavior\n"
  \o "            doGravity(x, y, i, true, 1.0);\n"
  \o "          }\n"
  \o "        "

enhanceCategoryLiquidFirst(name) ==
  IF Includes(name, "WATER") \/ Includes(name, "LIQUID") \/ Includes(name, "OIL")
     \/ Includes(name, "JUICE") \/ Includes(name, "BLOOD")
    THEN "liquid"
  ELSE IF Includes(name, "GAS") \/ Includes(name, "SMOKE")
          \/ Includes(name, "VAPOR") \/ Includes(name, "STEAM")
    THEN "gas"
  ELSE IF Includes(name, "HAIR") \/ Includes(name, "FUR") \/ Includes(name, "STRING")
    THEN "hair"
  ELSE "none"

\* the tests of enhanceCodeBasedOnName on the upper-cased name, in order
enhanceCategory(name) ==
  IF Includes(name, "HAIR") \/ Includes(name, "FUR") \/ Includes(name, "STRING")
    THEN "hair"
  ELSE IF Includes(name, "GAS") \/ Includes(name, "SMOKE")
          \/ Includes(name, "VAPOR") \/ Includes(name, "STEAM")
    THEN "gas"
  ELSE IF Includes(name, "WATER") \/ Includes(name, "LIQUID") \/ Includes(name, "OIL")
          \/ Includes(name, "JUICE") \/ Includes(name, "BLOOD")
    THEN "liquid"
  ELSE "none"

enhanceWithoutLiquid(code, particleName, elementColor) ==
  IF Includes(toUpperCase(particleName), "HAIR") \/ Includes(toUpperCase(particleName), "FUR")
     \/ Includes(toUpperCase(particleName), "STRING")
    THEN HairTemplate(particleName, elementColor)
  ELSE IF Includes(toUpperCase(particleName), "GAS")
          \/ Includes(toUpperCase(particleName), "SMOKE")
          \/ Includes(toUpperCase(particleName), "VAPOR")
          \/ Includes(toUpperCase(particleName), "STEAM")
    THEN GasTemplate(particleName)
  ELSE code

enhanceCodeBasedOnName(code, particleName, elementColor) ==
  LET name == toUpperCase(particleName)
  IN IF enhanceCategory(name) = "hair" THEN HairTemplate(particleName, elementColor)
     ELSE IF enhanceCategory(name) = "gas" THEN GasTemplate(particleName)
     ELSE IF enhanceCategory(name) = "liquid" THEN LiquidTemplate(particleName, name)
     ELSE code

\* the explosion template at cell i of a buffer of that length: the cells it
\* sets to FIRE, and whether it runs the original fragment
explosionTemplateRun(i, width, length, contact) ==
  IF contact
  THEN [writes |-> {i} \cup (IF i + 1 < length THEN {i + 1} ELSE {})
                      \cup (IF i - 1 >= 0 THEN {i - 1} ELSE {})
                      \cup (IF i + width < length THEN {i + width} ELSE {})
                      \cup (IF i - width >= 0 THEN {i - width} ELSE {}),
        original |-> FALSE]
  ELSE [writes |-> {}, original |-> TRUE]

isKnownElement(elementName) ==
  elementName \in {"BACKGROUND", "WALL", "SAND", "WATER", "PLANT", "FIRE", "SALT", "OIL",
                   "SPOUT", "WELL", "TORCH", "GUNPOWDER", "WAX", "ICE", "LAVA", "CRYO",
                   "NITRO", "STEAM", "C4", "FUSE", "SALT_WATER", "FALLING_WAX"}

(***************************************************************************)
(* preprocessActionCode.                                                   *)
(***************************************************************************)
TrivialLength == 50

PatBordering ==
  <<Lit("bordering"), Star(Space), Lit("("), Star(Space), Lit("x"), Star(Space), Lit(","),
    Star(Space), Lit("y"), Star(Space), Lit(","), Star(Space), Lit("i"), Star(Space),
    Lit(","), Star(Space), Lit("FIRE"), Star(Space), Lit(")")>>

\* /gameImagedata32\[i\s*([+-])\s*(\w+)\]\s*=\s*([A-Z_]+)\s*;/ at position i:
\* the position just past the match (0 if none) and the bounds of group 3
ArrayAccessMatch(s, i) ==
  LET none == [end |-> 0, from |-> 0, to |-> 0]
      head == "gameImagedata32[i"
      j1 == SkipClass(s, i + Len(head), Space)
      j2 == SkipClass(s, j1 + 1, Space)
      j3 == SkipClass(s, j2, Word)
      j4 == SkipClass(s, j3 + 1, Space)
      j5 == SkipClass(s, j4 + 1, Space)
      j6 == SkipClass(s, j5, UpperUnderscore)
      j7 == SkipClass(s, j6, Space)
  IN IF /\ StartsAt(s, i, head)
        /\ Ch(s, j1) \in {"+", "-"}
        /\ j3 > j2
        /\ Ch(s, j3) = "]"
        /\ Ch(s, j4) = "="
        /\ j6 > j5
        /\ Ch(s, j7) = ";"
     THEN [end |-> j7 + 1, from |-> j5, to |-> j6 - 1]
     ELSE none

\* the callback of the arrayAccessPattern replacement
ArrayAccessReplacement(match, elementName, elementColor) ==
  IF elementName = "FIRE" \/ elementName = "BACKGROUND" THEN match
  ELSE IF elementName = "THIS_ELEMENT_COLOR"
    THEN ReplaceFirst(match, "THIS_ELEMENT_COLOR", ToString(elementColor))
  ELSE IF isKnownElement(elementName) THEN match
  ELSE ReplaceFirst(match, elementName, "FIRE")

RECURSIVE ReplaceArrayAccess(_, _, _)
ReplaceArrayAccessAt(s, pos, elementColor, i, m) ==
  IF i = 0 THEN Sub(s, pos, Len(s))
  ELSE Sub(s, pos, i - 1)
       \o ArrayAccessReplacement(Sub(s, i, m.end - 1), Sub(s, m.from, m.to), elementColor)
       \o ReplaceArrayAccess(s, m.end, elementColor)

ReplaceArrayAccessNext(s, pos, elementColor, i) ==
  ReplaceArrayAccessAt(s, pos, elementColor, i, ArrayAccessMatch(s, i))

ReplaceArrayAccess(s, pos, elementColor) ==
  ReplaceArrayAccessNext(s, pos, elementColor,
                         MinOrZero({i \in pos..Len(s) : ArrayAccessMatch(s, i).end > 0}))

IsExplosiveName(particleName) ==
  LET name == toUpperCase(particleName)
  IN Includes(name, "TNT") \/ Includes(name, "BOMB") \/ Includes(name, "EXPLO")

\* the last step of preprocessActionCode: an explosive name whose code never
\* mentions fire gets the explosion template
addExplosion(code, particleName) ==
  IF IsExplosiveName(particleName) /\ ~Includes(code, "FIRE") /\ ~Includes(code, "fire")
  THEN ExplosionTemplate(code)
  ELSE code

\* the first step: trivial code is replaced by the template of the name
enhanceTrivial(code, trimmed, particleName, elementColor) ==
  IF Len(trimmed) < TrivialLength \/ trimmed = "doGravity(x, y, i, true, 0.9);"
  THEN enhanceCodeBasedOnName(code, particleName, elementColor)
  ELSE code

preprocessActionCode(code, particleName, elementColor) ==
  LET SelfName(c) == ReplaceAll(<<Boundary, Lit(toUpperCase(particleName)), Boundary>>,
                                "THIS_ELEMENT_COLOR", c)
      Bordering(c) == ReplaceAll(PatBordering,
                        "adjacent(x, i, FIRE) || below(y, i, FIRE) || above(y, i, FIRE)", c)
      ArrayAccess(c) == ReplaceArrayAccess(c, 1, elementColor)
      ThisColor(c) == ReplaceAll(<<Lit("THIS_ELEMENT_COLOR")>>, ToString(elementColor), c)
      Explosion(c) == addExplosion(c, particleName)
  IN Then(Explosion, Then(ThisColor, Then(ArrayAccess, Then(Bordering, Then(SelfName,
       enhanceTrivial(code, Trim(code), particleName, elementColor))))))

(***************************************************************************)
(* registerCustomParticle, lines 215-241 and 296-322: a fragment that is a *)
(* whole function declaration is cut down to its body.                     *)
(***************************************************************************)
\* one turn of the for loop that looks for the closing brace
CloseBraceStep(acc, s, i) ==
  IF acc.closeBraceIndex # 0 THEN acc
  ELSE LET n == acc.braceCount + (IF Ch(s, i) = "{" THEN 1 ELSE 0)
                               - (IF Ch(s, i) = "}" THEN 1 ELSE 0)
       IN [braceCount |-> n, closeBraceIndex |-> IF n = 0 THEN i ELSE 0]

\* the index of the closing brace, or 0 (the code's -1)
FindCloseBrace(s, from, braceCount) ==
  FoldRange(CloseBraceStep, s, from, Len(s),
            [braceCount |-> braceCount, closeBraceIndex |-> 0]).closeBraceIndex

ExtractBetween(actionCode, openBraceIndex, closeBraceIndex) ==
  IF closeBraceIndex = 0 THEN actionCode
  ELSE Trim(Sub(actionCode, openBraceIndex + 1, closeBraceIndex - 1))

ExtractFrom(actionCode, openBraceIndex) ==
  IF ~StartsAt(actionCode, 1, "function") \/ openBraceIndex = 0 THEN actionCode
  ELSE ExtractBetween(actionCode, openBraceIndex,
                      FindCloseBrace(actionCode, openBraceIndex + 1, 1))

ExtractTrimmed(actionCode) ==
  ExtractFrom(actionCode, MinOrZero({i \in 1..Len(actionCode) : Ch(actionCode, i) = "{"}))

ExtractFunctionBody(action_code) == Then(ExtractTrimmed, Trim(action_code))

(***************************************************************************)
(* new Function('x', 'y', 'i', safeActionCode) throws a SyntaxError when   *)
(* the body is not a statement list.  The parser is modelled by the rules  *)
(* that decide the fragments of this model: brackets nest, no ';' directly *)
(* inside ( ) or [ ] (the head of a for loop that lost its keyword), no    *)
(* declaration as the condition of an if, no break or continue outside a   *)
(* loop or switch, every catch right after the block of a try and every    *)
(* try block followed by its catch.  Comments are removed first, as the scanner does: a     *)
(* line comment up to its line end, a block comment becomes a space.       *)
(***************************************************************************)
StripStep(acc, s, i) ==
  LET c == Ch(s, i)
  IN IF acc.comment = "line"
     THEN IF c = "\n" THEN [acc EXCEPT !.out = acc.out \o c, !.comment = ""] ELSE acc
     ELSE IF acc.comment = "block"
     THEN IF i >= acc.from + 3 /\ StartsAt(s, i - 1, "*/")
          THEN [acc EXCEPT !.out = acc.out \o " ", !.comment = ""]
          ELSE acc
     ELSE IF StartsAt(s, i, "//") THEN [acc EXCEPT !.comment = "line"]
     ELSE IF StartsAt(s, i, "/*") THEN [acc EXCEPT !.comment = "block", !.from = i]
     ELSE [acc EXCEPT !.out = acc.out \o c]

StripComments(s) ==
  FoldRange(StripStep, s, 1, Len(s), [out |-> "", comment |-> "", from |-> 0]).out

Closer(c) == CASE c = "(" -> ")" [] c = "[" -> "]" [] OTHER -> "}"

\* the stack of open brackets after s[i], "!" once the nesting is broken
NestStep(stack, s, i) ==
  LET c == Ch(s, i)
      top == Ch(stack, Len(stack))
  IN IF stack = "!" THEN stack
     ELSE CASE c \in {"(", "[", "{"} -> stack \o c
            [] c \in {")", "]", "}"} ->
                 IF stack # "" /\ Closer(top) = c THEN Sub(stack, 1, Len(stack) - 1) ELSE "!"
            [] c = ";" -> IF top \in {"(", "["} THEN "!" ELSE stack
            [] OTHER -> stack

NestText(s, stack) == FoldRange(NestStep, s, 1, Len(s), stack)

HasWord(s, w) == \E i \in 1..Len(s) : MatchEnd(<<Boundary, Lit(w), Boundary>>, 1, s, i) > 0

DeclarationInParens(s) ==
  \E i \in 1..Len(s) : \E kw \in {"let", "const", "var"} :
    MatchEnd(<<Lit("("), Star(Space), Lit(kw), Plus(Space)>>, 1, s, i) > 0

\* where the blocks of the try statements of t end (0: nowhere)
TryClosers(t) ==
  {FindCloseBrace(t, MatchEnd(<<Boundary, Lit("try"), Star(Space), Lit("{")>>, 1, t, i), 1) :
     i \in {k \in 1..Len(t) :
              MatchEnd(<<Boundary, Lit("try"), Star(Space), Lit("{")>>, 1, t, k) > 0}}

CatchStarts(t) ==
  {i \in 1..Len(t) : MatchEnd(<<Boundary, Lit("catch"), Boundary>>, 1, t, i) > 0}

TryCatchPaired(t) ==
  /\ \A i \in CatchStarts(t) : \E c \in TryClosers(t) : c # 0 /\ SkipClass(t, c + 1, Space) = i
  /\ \A c \in TryClosers(t) : c # 0 /\ SkipClass(t, c + 1, Space) \in CatchStarts(t)

Parses(t) ==
  /\ NestText(t, "") = ""
  /\ ~DeclarationInParens(t)
  /\ TryCatchPaired(t)
  /\ HasWord(t, "switch") \/ (~HasWord(t, "break") /\ ~HasWord(t, "continue"))

Compiles(body) == Then(Parses, StripComments(body))

\* a while or for statement in the text the parser sees
LoopHead(t) ==
  \E i \in 1..Len(t) : \E kw \in {"while", "for"} :
    MatchEnd(<<Boundary, Lit(kw), Star(Space), Lit("(")>>, 1, t, i) > 0

\* a loop whose condition is the constant true
LoopForever(t) ==
  \E i \in 1..Len(t) :
    MatchEnd(<<Boundary, Lit("while"), Star(Space), Lit("("), Star(Space), Lit("true"),
               Star(Space), Lit(")")>>, 1, t, i) > 0

(***************************************************************************)
(* The processing chain of registerCustomParticle up to the compilation.   *)
(***************************************************************************)
ProcessedFragment(action_code, particleName, elementColor) ==
  LET Preprocess(c) == preprocessActionCode(c, particleName, elementColor)
  IN Then(Preprocess, Then(sanitizeActionCode, ExtractFunctionBody(action_code)))

(***************************************************************************)
(* Colours.  __inGameColor packs the channels, each with its two low bits  *)
(* cleared, under an alpha byte; getColorComponents is its inverse.  Ids   *)
(* are written here without the constant alpha term 0xff000000, which no   *)
(* comparison between ids depends on; with it no id is 0, so every stored  *)
(* id is truthy.                                                           *)
(***************************************************************************)
__inGameColor(r, g, b) == ((b \div 4) * 4) * 65536 + ((g \div 4) * 4) * 256 + ((r \div 4) * 4)

getColorComponents(elementColor) ==
  <<elementColor % 256, (elementColor \div 256) % 256, (elementColor \div 65536) % 256>>

\* the engine's own ids: a colour plus the element's index in the low bits
BACKGROUND == __inGameColor(0, 0, 0)
WALL == __inGameColor(127, 127, 127) + 1
SAND == __inGameColor(223, 193, 99) + 2
WATER == __inGameColor(0, 10, 255) + 3
PLANT == __inGameColor(0, 220, 0) + 256
FIRE == __inGameColor(255, 0, 10) + 257

BuiltinIds == {BACKGROUND, WALL, SAND, WATER, PLANT, FIRE}

(***************************************************************************)
(* validateUniqueParticle and adjustColorForUniqueness.                    *)
(***************************************************************************)
standardColors ==
  <<[name |-> "FIRE", color |-> <<255, 0, 10>>], [name |-> "WATER", color |-> <<0, 10, 255>>],
    [name |-> "PLANT", color |-> <<0, 220, 0>>], [name |-> "SAND", color |-> <<223, 193, 99>>],
    [name |-> "WALL", color |-> <<127, 127, 127>>], [name |-> "OIL", color |-> <<150, 60, 0>>],
    [name |-> "LAVA", color |-> <<245, 110, 40>>],
    [name |-> "ICE", color |-> <<200, 200, 255>>]>>

SimilarityThreshold == 60

\* Math.sqrt(dr^2 + dg^2 + db^2) < 60, on integers
TooSimilar(c, e) ==
  (c[1] - e[1]) * (c[1] - e[1]) + (c[2] - e[2]) * (c[2] - e[2])
    + (c[3] - e[3]) * (c[3] - e[3]) < SimilarityThreshold * SimilarityThreshold

\* the loop over standardColors returns at the first entry that is too
\* similar: its name, "" if there is none
SimilarElement(color) ==
  IF \A k \in 1..Len(standardColors) : ~TooSimilar(color, standardColors[k].color) THEN ""
  ELSE standardColors[Min({k \in 1..Len(standardColors) :
                             TooSimilar(color, standardColors[k].color)})].name

\* `[${r},${g},${b}]`
ColorText(color) ==
  "[" \o ToString(color[1]) \o "," \o ToString(color[2]) \o "," \o ToString(color[3]) \o "]"

\* the message of line 602 for the entry of that name
SimilarMessage(color, elementName) ==
  LET e == CHOOSE k \in 1..Len(standardColors) : standardColors[k].name = elementName
  IN "Color " \o ColorText(color) \o " is too similar to " \o elementName \o " "
       \o ColorText(standardColors[e].color)

\* the message validateUniqueParticle returns, on the lower-cased code and name
validationMessage(color, code, name) ==
  IF SimilarElement(color) # "" THEN SimilarMessage(color, SimilarElement(color))
  ELSE IF Trim(code) = "dogravity(x, y, i, true, 0.9);"
          \/ Trim(code) = "dogravity(x, y, i, true, 1.0);"
    THEN "Action code is too simple/generic (just basic gravity)"
  ELSE IF /\ Includes(name, "fire") /\ Includes(code, "fire")
          /\ ~Includes(code, "water") /\ ~Includes(code, "sand")
    THEN "Fire-like particle with too generic behavior"
  ELSE IF Includes(name, "water") /\ Includes(code, "densityliquid") /\ Len(code) < 50
    THEN "Water-like particle with too generic behavior"
  ELSE "Particle is unique"

\* isValid of the result
UniqueChecks(color, code, name) == validationMessage(color, code, name) = "Particle is unique"

validateUniqueParticle(particleData) ==
  UniqueChecks(particleData.color, toLowerCase(particleData.action_code),
               toLowerCase(particleData.name))

\* message of the result
validateUniqueParticleMessage(particleData) ==
  validationMessage(particleData.color, toLowerCase(particleData.action_code),
                    toLowerCase(particleData.name))

MinOf(a, b) == IF a < b THEN a ELSE b

MaxOf(a, b) == IF a > b THEN a ELSE b

\* Math.round(c * (255 / maxChannel) * 0.8) in IEEE doubles: 204*c/maxChannel
\* rounded half up, except the two products that fall just under a half
ScaledChannel(c, maxChannel) ==
  LET exact == (408 * c + maxChannel) \div (2 * maxChannel)
  IN IF maxChannel = 232 /\ c \in {87, 145} THEN exact - 1 ELSE exact

Clamp255(v) == MaxOf(0, MinOf(255, v))

adjustBranchHeat(nameUpper) ==
  IF Includes(nameUpper, "FIRE") \/ Includes(nameUpper, "FLAME") \/ Includes(nameUpper, "TNT")
    THEN "fire"
  ELSE IF Includes(nameUpper, "WATER") \/ Includes(nameUpper, "LIQUID") THEN "water"
  ELSE IF Includes(nameUpper, "PLANT") \/ Includes(nameUpper, "LEAF") THEN "plant"
  ELSE "general"

\* the branch adjustColorForUniqueness takes for a name
adjustBranch(nameUpper) ==
  IF Includes(nameUpper, "FIRE") \/ Includes(nameUpper, "FLAME") THEN "fire"
  ELSE IF Includes(nameUpper, "WATER") \/ Includes(nameUpper, "LIQUID") THEN "water"
  ELSE IF Includes(nameUpper, "PLANT") \/ Includes(nameUpper, "LEAF") THEN "plant"
  ELSE "general"

Saturated(c, maxChannel) == IF maxChannel > 0 THEN ScaledChannel(c, maxChannel) ELSE c

\* r, g, b before the final clamp
Shifted(r, g, b, branch) ==
  CASE branch = "fire" -> <<MinOf(255, r + 20), MinOf(255, g + 80), MinOf(255, b + 120)>>
    [] branch = "water" -> <<MinOf(255, r + 40), MinOf(255, g + 150), MaxOf(150, b - 30)>>
    [] branch = "plant" -> <<MinOf(255, r + 100), MaxOf(100, g - 70), MinOf(255, b + 40)>>
    [] OTHER -> <<255 - Saturated(r, MaxOf(r, MaxOf(g, b))),
                  255 - Saturated(g, MaxOf(r, MaxOf(g, b))),
                  255 - Saturated(b, MaxOf(r, MaxOf(g, b)))>>

ClampAll(shifted) == <<Clamp255(shifted[1]), Clamp255(shifted[2]), Clamp255(shifted[3])>>

adjustUnbounded(color, name) ==
  IF adjustBranch(toUpperCase(name)) = "general"
  THEN <<255 - color[1], 255 - color[2], 255 - color[3]>>
  ELSE <<color[1] + 20, color[2] + 80, color[3] + 120>>

adjustColorForUniqueness(color, name) ==
  ClampAll(Shifted(color[1], color[2], color[3], adjustBranch(toUpperCase(name))))

(***************************************************************************)
(* The fragments that reach the registry in this model: two that a         *)
(* generator may return, the liquid example of the generation prompt       *)
(* (openai.js, getRelevantExamples) and the test particle's fragment.      *)
(***************************************************************************)
FragFall == "if (below(y, i, BACKGROUND)) { doGravity(x, y, i, true, 0.5); }"

FragWhile == "while (below(y, i, BACKGROUND)) { doGravity(x, y, i, true, 0.9); }"

\* a loop whose head the patterns of sanitizeActionCode do not match
FragSpin == "while/* until it lands */(true) { doGravity(x, y, i, true, 0.9); }"

\* a fragment that closes the try block of the wrapper and raises after it
FragEscape == "} catch (e) { } undefinedHelper(x, y, i); swap(i, i + width); try {"

AcidExample ==
  "// Acid is a corrosive liquid that dissolves materials\n"
  \o "doDensityLiquid(x, y, i, WATER, 0.8, 0.6); // Heavier than water, flows well\n"
  \o "\n"
  \o "// Dissolve materials it touches\n"
  \o "if (bordering(x, y, i, SAND) && random() < 0.1) {\n"
  \o "  // Find the sand particle and dissolve it\n"
  \o "  const positions = [1, -1, width, -width, width+1, width-1, -width+1, -width-1];\n"
  \o "  for (let j = 0; j < positions.length; j++) {\n"
  \o "    if (i + positions[j] >= 0 && i + positions[j] < gameImagedata32.length) {\n"
  \o "      if (gameImagedata32[i + positions[j]] === SAND) {\n"
  \o "        gameImagedata32[i + positions[j]] = BACKGROUND;\n"
  \o "        break;\n"
  \o "      }\n"
  \o "    }\n"
  \o "  }\n"
  \o "}\n"

TestActionCode ==
  "\n"
  \o "      // Check if TNT is in contact with fire\n"
  \o "      if (adjacent(x, i, FIRE) || below(y, i, FIRE) || above(y, i, FIRE)) {\n"
  \o "        // Create explosion\n"
  \o "        gameImagedata32[i] = FIRE; // Center becomes fire\n"
  \o "        \n"
  \o "        // Set surrounding pixels to fire to create explosion effect\n"
  \o "        if (i+1 < gameImagedata32.length) gameImagedata32[i+1] = FIRE;\n"
  \o "        if (i-1 >= 0) gameImagedata32[i-1] = FIRE;\n"
  \o "        if (i+width < gameImagedata32.length) gameImagedata32[i+width] = FIRE;\n"
  \o "        if (i-width >= 0) gameImagedata32[i-width] = FIRE;\n"
  \o "        \n"
  \o "        // Larger explosion radius\n"
  \o "        if (i+width+1 < gameImagedata32.length) gameImagedata32[i+width+1] = FIRE;\n"
  \o "        if (i+width-1 < gameImagedata32.length && i+width-1 >= 0) gameImagedata32[i+width-1] = FIRE;\n"
  \o "        if (i-width+1 >= 0 && i-width+1 < gameImagedata32.length) gameImagedata32[i-width+1] = FIRE;\n"
  \o "        if (i-width-1 >= 0) gameImagedata32[i-width-1] = FIRE;\n"
  \o "      } else {\n"
  \o "        // Normal behavior - falls like sand\n"
  \o "        doGravity(x, y, i, true, 0.9);\n"
  \o "      }\n"
  \o "    "

createTestParticle ==
  [name |-> "TNT", color |-> <<255, 60, 30>>, action_code |-> TestActionCode]

(***************************************************************************)
(* generateParticle: what it makes of the service's answer.                *)
(***************************************************************************)
\* an answer of the service: the transport worked, the status was a success,
\* the content held a JSON object, and the object's fields ("" and <<>>
\* stand for a missing field)
NoData == [name |-> "", color |-> <<>>, action_code |-> ""]

NoAnswer ==
  [net |-> FALSE, ok |-> FALSE, json |-> FALSE, name |-> "", color |-> <<>>, action_code |-> ""]

\* parseInt(c): c as String(c) renders it, leading white space skipped, a
\* sign, a 0x prefix, then the longest run of digits; NaN when there is none
RadixDigits == <<"0123456789abcdef", "0123456789ABCDEF">>

IsDigit(c, radix, n) == Ch(RadixDigits[1], n + 1) = c \/ Ch(RadixDigits[2], n + 1) = c

DigitValue(c, radix) ==
  IF c = "" \/ \A n \in 0..(radix - 1) : ~IsDigit(c, radix, n) THEN -1
  ELSE CHOOSE n \in 0..(radix - 1) : IsDigit(c, radix, n)

RECURSIVE ParseDigits(_, _, _, _)
ParseDigits(s, i, radix, acc) ==
  IF DigitValue(Ch(s, i), radix) < 0 THEN acc
  ELSE LET Rest(a) == ParseDigits(s, i + 1, radix, a)
       IN Then(Rest, [nan |-> FALSE, n |-> acc.n * radix + DigitValue(Ch(s, i), radix)])

NaN == [nan |-> TRUE, n |-> 0]

ParseUnsigned(s, i) ==
  IF StartsAt(s, i, "0x") \/ StartsAt(s, i, "0X")
  THEN ParseDigits(s, i + 2, 16, NaN)
  ELSE ParseDigits(s, i, 10, NaN)

ParseSigned(s) ==
  IF StartsAt(s, 1, "-")
  THEN [ParseUnsigned(s, 2) EXCEPT !.n = -@]
  ELSE IF StartsAt(s, 1, "+") THEN ParseUnsigned(s, 2)
  ELSE ParseUnsigned(s, 1)

parseInt(c) == Then(ParseSigned, TrimStart(c))

\* Math.max(0, Math.min(255, val)): NaN stays NaN
ClampParsed(val) == IF val.nan THEN NaN ELSE [val EXCEPT !.n = MaxOf(0, MinOf(255, @))]

\* the map callback of generateParticle on one channel, given as String(c)
ClampChannel(c) == Then(ClampParsed, parseInt(c))

GenerationFailed(why) == [ok |-> FALSE, error |-> why, data |-> NoData]

\* the end of generateParticle: a description that fails the validator gets
\* an adjusted colour
Validated(particleData) ==
  [ok |-> TRUE, error |-> "",
   data |-> IF validateUniqueParticle(particleData) THEN particleData
            ELSE [particleData EXCEPT
                    !.color = adjustColorForUniqueness(particleData.color, particleData.name)]]

ResponseFaultNoStatus(response) ==
  IF ~response.net THEN "transport"
  ELSE IF ~response.json THEN "parse"
  ELSE IF response.name = "" \/ response.color = <<>> \/ response.action_code = ""
    THEN "missing fields"
  ELSE IF Len(response.color) # 3 THEN "color format"
  ELSE ""

\* the throw statements of generateParticle after the fetch: the first that
\* applies to the answer, "" if none does
ResponseFault(response) ==
  IF ~response.net THEN "transport"
  ELSE IF ~response.ok THEN "API Error"
  ELSE IF ~response.json THEN "parse"
  ELSE IF response.name = "" \/ response.color = <<>> \/ response.action_code = ""
    THEN "missing fields"
  ELSE IF Len(response.color) # 3 THEN "color format"
  ELSE ""

generateParticle(particleName, response, isInitialized) ==
  IF ~isInitialized THEN GenerationFailed("not initialized")
  ELSE IF ResponseFault(response) # "" THEN GenerationFailed(ResponseFault(response))
  ELSE Then(Validated, [name |-> toUpperCase(particleName),
                        color |-> [k \in 1..3 |-> ClampChannel(ToString(response.color[k])).n],
                        action_code |-> response.action_code])

(***************************************************************************)
(* Compilation.  new Function('x', 'y', 'i', safeActionCode) is modelled   *)
(* by the text, whether the parser accepts it, and whether the custom code *)
(* stays inside the try block the wrapper opens: the block the wrapper     *)
(* opens must be closed by the wrapper's own catch clause, not by a brace  *)
(* of the fragment.                                                        *)
(***************************************************************************)
WrapperCatch == "} catch (error) {"

LastMatch(s, lit) ==
  LET M == {i \in 1..Len(s) : StartsAt(s, i, lit)} IN IF M = {} THEN 0 ELSE -Min({-i : i \in M})

GuardedAt(t, open) == open # 0 /\ FindCloseBrace(t, open + 1, 1) = LastMatch(t, WrapperCatch)

GuardedText(t) == GuardedAt(t, MinOrZero({i \in 1..Len(t) : Ch(t, i) = "{"}))

newFunction(safeActionCode) ==
  [safeActionCode |-> safeActionCode,
   compiles |-> Compiles(safeActionCode),
   guarded |-> Then(GuardedText, StripComments(safeActionCode)),
   loops |-> Then(LoopHead, StripComments(safeActionCode)),
   forever |-> Then(LoopForever, StripComments(safeActionCode))]

Wrapped(actionCode, exists) ==
  IF exists THEN InnerWrapperUpdate(actionCode) ELSE InnerWrapper(actionCode)

\* lines 296-349 (new name) and 215-268 (known name) of registerCustomParticle
Compilation(action_code, particleName, elementColor, exists) ==
  LET Wrap(c) == Wrapped(c, exists)
  IN Then(newFunction, Then(Wrap, ProcessedFragment(action_code, particleName, elementColor)))

(***************************************************************************)
(* The answers and descriptions of this model, and the compilation of each *)
(* description that can reach the registry, computed once.                 *)
(***************************************************************************)
RespColors == {<<255, 60, 30>>, <<10, 200, 100>>}

Fragments == {FragFall, FragWhile, FragSpin, FragEscape, AcidExample}

GoodResponses ==
  [net : {TRUE}, ok : {TRUE}, json : {TRUE}, name : {"TNT", "acid"},
   color : RespColors, action_code : Fragments]

BadResponses ==
  LET good == [net |-> TRUE, ok |-> TRUE, json |-> TRUE, name |-> "TNT",
               color |-> <<10, 200, 100>>, action_code |-> FragFall]
  IN {[good EXCEPT !.net = FALSE], [good EXCEPT !.ok = FALSE], [good EXCEPT !.json = FALSE],
      [good EXCEPT !.name = ""], [good EXCEPT !.color = <<>>],
      [good EXCEPT !.action_code = ""], [good EXCEPT !.color = <<10, 200>>]}

Responses == GoodResponses \cup BadResponses

Names == {"TNT", "ACID"}

Descriptions ==
  {generateParticle(n, r, TRUE).data : n \in Names, r \in Responses} \cup {createTestParticle}

DescriptionIds ==
  {__inGameColor(d.color[1], d.color[2], d.color[3]) : d \in {e \in Descriptions : e # NoData}}

Compilations ==
  [action_code \in Fragments \cup {TestActionCode}, particleName \in Names,
   elementColor \in DescriptionIds, exists \in BOOLEAN |->
     Compilation(action_code, particleName, elementColor, exists)]

(***************************************************************************)
(* The registry.                                                           *)
(***************************************************************************)
Put(f, k, v) == [a \in DOMAIN f \cup {k} |-> IF a = k THEN v ELSE f[a]]

EmptyMap == [a \in {} |-> 0]

\* the closure returned by createSafeParticleAction: it holds the compiled
\* function and the particle name
createSafeParticleAction(actionFn, particleName) ==
  [actionFn |-> actionFn, particleName |-> particleName]

NoCallable ==
  [actionFn |-> [safeActionCode |-> "", compiles |-> FALSE, guarded |-> FALSE,
                 loops |-> FALSE, forever |-> FALSE],
   particleName |-> ""]

\* updateCustomParticlesList reads customElementColors[name].toString() for
\* every stored description: a TypeError when such a name has no id
updateCustomParticlesListThrows(colors, particles) ==
  \E name \in DOMAIN particles : name \notin DOMAIN colors

getElementColorFromName(colors, name) == IF name \in DOMAIN colors THEN colors[name] ELSE 0

Registry ==
  [customElementColors |-> customElementColors,
   customElementActions |-> customElementActions,
   nextCustomElementIdx |-> nextCustomElementIdx,
   menuNames |-> menuNames,
   elements |-> elements,
   elementActions |-> elementActions]

elementColorFresh(reg, particleData) ==
  __inGameColor(particleData.color[1], particleData.color[2], particleData.color[3])

\* the id registerCustomParticle works with: the stored one of a known name,
\* the packed colour for a new one
elementColorOf(reg, particleData) ==
  IF particleData.name \in DOMAIN reg.customElementColors
  THEN reg.customElementColors[particleData.name]
  ELSE __inGameColor(particleData.color[1], particleData.color[2], particleData.color[3])

UpdateAppending(reg, elementColor, safeFunction) ==
  [reg EXCEPT !.customElementActions = Put(@, elementColor, safeFunction),
              !.elements = Append(@, elementColor),
              !.elementActions = Append(@, safeFunction)]

\* a known name: the callable of its id is replaced
UpdateExisting(reg, elementColor, safeFunction) ==
  [reg EXCEPT !.customElementActions = Put(@, elementColor, safeFunction)]

\* a new name: its id and menu name are recorded before the compilation
NameNew(reg, particleName, elementColor) ==
  [reg EXCEPT !.customElementColors = Put(@, particleName, elementColor),
              !.menuNames = Put(@, elementColor, particleName)]

AddNewIdOnly(reg, elementColor, safeFunction) ==
  [reg EXCEPT !.customElementActions = Put(@, elementColor, safeFunction),
              !.elements = Append(@, elementColor),
              !.nextCustomElementIdx = @ + 1]

\* a new name, after the compilation
AddNew(reg, elementColor, safeFunction) ==
  [reg EXCEPT !.customElementActions = Put(@, elementColor, safeFunction),
              !.elements = Append(@, elementColor),
              !.elementActions = Append(@, safeFunction),
              !.nextCustomElementIdx = @ + 1]

\* the outcome of a call: the registry after it, whether it threw, the id it
\* returned, the path it took, the callable it installed
Outcome(reg, particles, threw, value, path, built) ==
  [reg |-> reg,
   threw |-> threw \/ updateCustomParticlesListThrows(reg.customElementColors, particles),
   value |-> value, path |-> path, built |-> built]

RegisteredDropping(reg, particles, particleName, elementColor, exists, compiled) ==
  IF exists
  THEN IF ~compiled.compiles
       THEN [reg |-> UpdateExisting(reg, elementColor, NoCallable), threw |-> TRUE,
             value |-> 0, path |-> "update", built |-> NoCallable]
       ELSE Outcome(UpdateExisting(reg, elementColor,
                                   createSafeParticleAction(compiled, particleName)),
                    particles, FALSE, elementColor, "update",
                    createSafeParticleAction(compiled, particleName))
  ELSE IF ~compiled.compiles
       THEN [reg |-> NameNew(reg, particleName, elementColor), threw |-> TRUE, value |-> 0,
             path |-> "new", built |-> NoCallable]
       ELSE Outcome(AddNew(NameNew(reg, particleName, elementColor), elementColor,
                           createSafeParticleAction(compiled, particleName)),
                    particles, FALSE, elementColor, "new",
                    createSafeParticleAction(compiled, particleName))

Registered(reg, particles, particleName, elementColor, exists, compiled) ==
  IF exists
  THEN IF ~compiled.compiles
       THEN [reg |-> reg, threw |-> TRUE, value |-> 0, path |-> "update", built |-> NoCallable]
       ELSE Outcome(UpdateExisting(reg, elementColor,
                                   createSafeParticleAction(compiled, particleName)),
                    particles, FALSE, elementColor, "update",
                    createSafeParticleAction(compiled, particleName))
  ELSE IF ~compiled.compiles
       THEN [reg |-> NameNew(reg, particleName, elementColor), threw |-> TRUE, value |-> 0,
             path |-> "new", built |-> NoCallable]
       ELSE Outcome(AddNew(NameNew(reg, particleName, elementColor), elementColor,
                           createSafeParticleAction(compiled, particleName)),
                    particles, FALSE, elementColor, "new",
                    createSafeParticleAction(compiled, particleName))

RegisterAs(reg, particleData, particles, elementColor, exists) ==
  Registered(reg, particles, particleData.name, elementColor, exists,
             Compilations[particleData.action_code, particleData.name, elementColor, exists])

\* registerCustomParticle(particleData) on registry reg; particles are the
\* stored descriptions, which the list refresh at its end reads
registerCustomParticle(reg, particleData, particles) ==
  RegisterAs(reg, particleData, particles, elementColorOf(reg, particleData),
             particleData.name \in DOMAIN reg.customElementColors)

(***************************************************************************)
(* Calling a registered callable.  What the fragment does is open: it      *)
(* returns or it raises.  The rest is the two try blocks around it.        *)
(***************************************************************************)
\* the compiled function: the one-in-ten shortcut, the custom code, the
\* catch clause of the wrapper if the custom code is inside its try block.
\* spins: a loop of the custom code never ends, and the call does not return
actionFunction(actionFn, short, raises, spins) ==
  IF short
    THEN [run |-> "short", raised |-> FALSE, returned |-> TRUE, effect |-> "doGravity 0.9"]
  ELSE IF spins
    THEN [run |-> "spins", raised |-> FALSE, returned |-> FALSE, effect |-> "custom"]
  ELSE IF ~raises
    THEN [run |-> "runs", raised |-> FALSE, returned |-> TRUE, effect |-> "custom"]
  ELSE IF actionFn.guarded
    THEN [run |-> "raises", raised |-> FALSE, returned |-> TRUE, effect |-> "doGravity 1.0"]
  ELSE [run |-> "raises", raised |-> TRUE, returned |-> FALSE, effect |-> "none"]

\* whether a loop of the custom code can go on for ever, and whether it can end
SpinChoices(actionFn) ==
  IF actionFn.forever THEN {TRUE} ELSE IF actionFn.loops THEN BOOLEAN ELSE {FALSE}

NameFallbackLiquidFirst(particleName) ==
  IF Includes(toUpperCase(particleName), "WATER")
     \/ Includes(toUpperCase(particleName), "LIQUID")
    THEN "doDensityLiquid"
  ELSE IF Includes(toUpperCase(particleName), "TNT")
          \/ Includes(toUpperCase(particleName), "BOMB")
          \/ Includes(toUpperCase(particleName), "EXPLO")
    THEN "FIRE"
  ELSE IF Includes(toUpperCase(particleName), "GAS")
          \/ Includes(toUpperCase(particleName), "SMOKE")
    THEN "doRise"
  ELSE "doGravity 0.8"

\* the catch clause of createSafeParticleAction
NameFallback(particleName) ==
  IF Includes(toUpperCase(particleName), "TNT") \/ Includes(toUpperCase(particleName), "BOMB")
     \/ Includes(toUpperCase(particleName), "EXPLO")
    THEN "FIRE"
  ELSE IF Includes(toUpperCase(particleName), "WATER")
          \/ Includes(toUpperCase(particleName), "LIQUID")
    THEN "doDensityLiquid"
  ELSE IF Includes(toUpperCase(particleName), "GAS")
          \/ Includes(toUpperCase(particleName), "SMOKE")
    THEN "doRise"
  ELSE "doGravity 0.8"

Uncaught(particleName, inner) == inner

Caught(particleName, inner) ==
  IF inner.raised
  THEN [inner EXCEPT !.raised = FALSE, !.returned = TRUE,
                     !.effect = NameFallback(particleName)]
  ELSE inner

\* the function createSafeParticleAction returns, called on a cell
actionCallable(callable, short, raises, spins) ==
  Caught(callable.particleName, actionFunction(callable.actionFn, short, raises, spins))

(***************************************************************************)
(* The interface: the particle form, the test button, the key form.        *)
(***************************************************************************)
MaxRequests == 2

\* what the user may have typed in the particle box and in the key box
InputValues == {"", " tnt", "Acid"}

KeyValues == {"", " ", "sk"}

\* the record of the operation that acted last
Quiet ==
  [op |-> "none", name |-> "", threw |-> FALSE, returned |-> TRUE, path |-> "", value |-> 0,
   answer |-> NoAnswer, run |-> "", effect |-> "none"]

NoCell == [i |-> 0, contact |-> FALSE]

NoBlast == [writes |-> {}, original |-> FALSE]

textVars == <<tIn, tName, tStage, tOut, tOut2, jIn, jOut, cIn, cOut, gIn, gOut>>

registryVars ==
  <<customElementColors, customElementActions, nextCustomElementIdx, menuNames, elements,
    elementActions>>

vars ==
  <<customElementColors, customElementActions, nextCustomElementIdx, menuNames, elements,
    elementActions, customParticles, initialized, submitDisabled, requests, last, tIn, tName,
    tStage, tOut, tOut2, jIn, jOut, cIn, cOut, gIn, gOut>>

TextIdle ==
  /\ tIn = ""
  /\ tName = ""
  /\ tStage = "idle"
  /\ tOut = ""
  /\ tOut2 = ""
  /\ jIn = <<>>
  /\ jOut = <<>>
  /\ cIn = <<>>
  /\ cOut = <<>>
  /\ gIn = NoCell
  /\ gOut = NoBlast

RegistryInit ==
  /\ customElementColors = EmptyMap
  /\ customElementActions = EmptyMap
  /\ nextCustomElementIdx = 64
  /\ menuNames = EmptyMap
  /\ elements = <<>>
  /\ elementActions = <<>>
  /\ customParticles = EmptyMap
  /\ initialized = FALSE
  /\ submitDisabled = FALSE
  /\ requests = <<>>
  /\ last = Quiet

Init == RegistryInit /\ TextIdle

SetRegistry(reg) ==
  /\ customElementColors' = reg.customElementColors
  /\ customElementActions' = reg.customElementActions
  /\ nextCustomElementIdx' = reg.nextCustomElementIdx
  /\ menuNames' = reg.menuNames
  /\ elements' = reg.elements
  /\ elementActions' = reg.elementActions

\* the page runs one handler at a time: while a call of the tick loop has
\* not returned, no handler runs
Responsive == last.returned

\* the save-key button: initOpenAI(apiKey) with the trimmed value of the key box
SaveApiKey ==
  \E value \in KeyValues :
    /\ Responsive
    /\ initialized' = (initialized \/ Trim(value) # "")
    /\ last' = [Quiet EXCEPT !.op = "key"]
    /\ UNCHANGED <<registryVars, customParticles, submitDisabled, requests, textVars>>

\* handleParticleSubmission up to its await: the request leaves, the button
\* is disabled
handleParticleSubmission(value) ==
  LET particleName == toUpperCase(Trim(value))
      overlaps == \E k \in 1..Len(requests) :
                     requests[k].state = "pending" /\ requests[k].name = particleName
      concurrent == \E k \in 1..Len(requests) : requests[k].state = "pending"
  IN IF particleName = "" \/ ~initialized
     THEN /\ last' = [Quiet EXCEPT !.op = "refused", !.name = particleName]
          /\ UNCHANGED <<registryVars, customParticles, initialized, submitDisabled, requests,
                         textVars>>
     ELSE /\ submitDisabled' = TRUE
          /\ requests' = Append(requests, [name |-> particleName, state |-> "pending",
                                           order |-> 0, overlaps |-> overlaps,
                                           concurrent |-> concurrent,
                                           built |-> NoCallable, data |-> NoData])
          /\ last' = [Quiet EXCEPT !.op = "submit", !.name = particleName]
          /\ UNCHANGED <<registryVars, customParticles, initialized, textVars>>

\* a click on the submit button: a disabled button delivers no click
SubmitClick ==
  /\ Responsive
  /\ ~submitDisabled
  /\ Len(requests) < MaxRequests
  /\ \E value \in InputValues : handleParticleSubmission(value)

\* the Enter key in the particle box calls the handler whatever the button's
\* state
SubmitEnter ==
  /\ Responsive
  /\ Len(requests) < MaxRequests
  /\ \E value \in InputValues : handleParticleSubmission(value)

Completed == Cardinality({k \in 1..Len(requests) : requests[k].state # "pending"})

\* the service answers request k: the rest of generateParticle and of
\* handleParticleSubmission run to the end
Registration(k, particleName, response, particleData, r) ==
  /\ customParticles' = Put(customParticles, particleName, particleData)
  /\ SetRegistry(r.reg)
  /\ requests' = [requests EXCEPT
                    ![k].state = IF r.threw THEN "regfailed" ELSE "registered",
                    ![k].order = Completed + 1,
                    ![k].built = r.built,
                    ![k].data = particleData]
  /\ last' = [Quiet EXCEPT !.op = "register", !.name = particleName, !.threw = r.threw,
                           !.path = r.path, !.value = r.value, !.answer = response]

Completion(k, particleName, response, gen) ==
  IF ~gen.ok
  THEN /\ requests' = [requests EXCEPT ![k].state = "genfailed", ![k].order = Completed + 1]
       /\ last' = [Quiet EXCEPT !.op = "genfailed", !.name = particleName,
                                !.answer = response]
       /\ UNCHANGED <<registryVars, customParticles>>
  ELSE Registration(k, particleName, response, gen.data,
                    registerCustomParticle(Registry, gen.data,
                                           Put(customParticles, particleName, gen.data)))

Complete(k, response) ==
  /\ Responsive
  /\ requests[k].state = "pending"
  /\ Completion(k, requests[k].name, response,
                generateParticle(requests[k].name, response, initialized))
  /\ submitDisabled' = FALSE
  /\ UNCHANGED <<initialized, textVars>>

Answer == \E k \in 1..Len(requests) : \E response \in Responses : Complete(k, response)

\* the test button: registerCustomParticle(createTestParticle())
TestRegistration(r) ==
  /\ Responsive
  /\ SetRegistry(r.reg)
  /\ last' = [Quiet EXCEPT !.op = "test", !.name = createTestParticle.name,
                           !.threw = r.threw, !.path = r.path, !.value = r.value]
  /\ UNCHANGED <<customParticles, initialized, submitDisabled, requests, textVars>>

TestButton == TestRegistration(registerCustomParticle(Registry, createTestParticle, customParticles))

\* the tick loop calls the callable of a custom cell
Invocation(elementColor, run) ==
  /\ last' = [Quiet EXCEPT !.op = "invoke",
                           !.name = customElementActions[elementColor].particleName,
                           !.threw = run.raised, !.returned = run.returned \/ run.raised,
                           !.value = elementColor, !.run = run.run,
                           !.effect = run.effect]
  /\ UNCHANGED <<registryVars, customParticles, initialized, submitDisabled, requests,
                 textVars>>

Invoke ==
  /\ Responsive
  /\ \E elementColor \in DOMAIN customElementActions : \E short, raises \in BOOLEAN :
       \E spins \in SpinChoices(customElementActions[elementColor].actionFn) :
         Invocation(elementColor,
                    actionCallable(customElementActions[elementColor], short, raises, spins))

\* the query surface of the interface: the stored descriptions by name
getAllCustomParticles == customParticles

Next == SaveApiKey \/ SubmitClick \/ SubmitEnter \/ Answer \/ TestButton \/ Invoke

Spec == Init /\ [][Next]_vars

(***************************************************************************)
(* Text specification: the inputs are drawn in Init, the actions apply the *)
(* text functions.                                                         *)
(***************************************************************************)
MaxPieces == 3

Pieces == {"func", "tion", "function ", "a(", "window.", "while (", "x"}

RECURSIVE Concats(_)
Concats(n) ==
  IF n = 0 THEN {""}
  ELSE LET S == Concats(n - 1) IN S \cup {p \o s : p \in Pieces, s \in S}

TextInputs == Concats(MaxPieces)

\* the fragments and names the rewriter is applied to
\* a fragment with its own fire-contact check, and one that names fire in a
\* comment only
FragBurn ==
  "if (bordering(x, y, i, FIRE)) { gameImagedata32[i] = FIRE; } else { "
  \o "doGravity(x, y, i, true, 0.95); }"

FragFireproof == "doGravity(x, y, i, true, 0.95); // fireproof casing, sinks like sand"

\* a fragment that writes the element of that name into a neighbouring cell
NeighbourWrite(offset, elementName) ==
  "gameImagedata32[i " \o offset \o "] = " \o elementName \o ";"

WriteFragment(offset, elementName) ==
  "doGravity(x, y, i, true, 0.95); " \o NeighbourWrite(offset, elementName)

WriteOffsets == {"+ 1", "- width", "+ N"}

WriteElements == {"FIRE", "BACKGROUND", "LAVA", "TNT", "SLIME", "N", "I"}

WriteFragments == {WriteFragment(o, e) : o \in WriteOffsets, e \in WriteElements}

ShortFragments ==
  {"", "  x  ", "doGravity(x, y, i, true, 0.9);", "gameImagedata32[i] = FIRE;", FragFall,
   FragBurn, FragFireproof} \cup WriteFragments

TextNames == {"TNT", "CLOUD", "OIL", "SMOKE", "FUR", "STEAM", "FURGAS", "GASOIL", "WATERBOMB"}

\* the grid the explosion template is run on: row-major, GridWidth cells a row
GridWidth == 3

GridHeight == 2

GridLength == GridWidth * GridHeight

TextColor == __inGameColor(10, 200, 100)

\* what the three values of an answer's color may be, as String renders them
ChannelTexts == {"255", "-5", "300", "12.7", "red", "null", " 42", "0x1F"}

JsonColors == {<<a, b, c>> : a, b, c \in ChannelTexts}

\* the channel values and the names the color functions are applied to
ChannelValues == {0, 30, 51, 60, 100, 150, 255}

Colors == {<<r, g, b>> : r, g, b \in ChannelValues}

ColorNames == {"TNT", "CAMPFIRE", "WATER", "LEAF"}

\* a fragment that leaves the wrapper's try block and names FIRE, so that
\* no name has it put inside the explosion template
FragEscapeFire == "} catch (e) { } undefinedHelper(x, y, i, FIRE); try {"

\* the names of the callables whose compiled function lets an exception out
FallbackNames ==
  {"TNT", "BOMB", "EXPLODER", "TNTWATER", "WATER", "LIQUIDGAS", "GAS", "SMOKE", "ACID",
   "waterbomb", "Gas"}

InitText ==
  /\ RegistryInit
  /\ \/ /\ tStage = "input"
        /\ \/ tIn \in TextInputs /\ tName = "TNT"
           \/ tIn \in ShortFragments /\ tName \in TextNames
        /\ jIn = <<>>
        /\ cIn = <<>>
        /\ gIn = NoCell
     \/ /\ tStage = "json"
        /\ tIn = ""
        /\ tName = ""
        /\ jIn \in JsonColors
        /\ cIn = <<>>
        /\ gIn = NoCell
     \/ /\ tStage = "color"
        /\ tIn = ""
        /\ tName \in ColorNames
        /\ jIn = <<>>
        /\ cIn \in Colors
        /\ gIn = NoCell
     \/ /\ tStage = "callable"
        /\ tIn = FragEscapeFire
        /\ tName \in FallbackNames
        /\ jIn = <<>>
        /\ cIn = <<>>
        /\ gIn = NoCell
     \/ /\ tStage = "name"
        /\ tIn = ""
        /\ tName \in TextNames \cup FallbackNames
        /\ jIn = <<>>
        /\ cIn = <<>>
        /\ gIn = NoCell
     \/ /\ tStage = "cell"
        /\ tIn = ""
        /\ tName = ""
        /\ jIn = <<>>
        /\ cIn = <<>>
        /\ gIn \in [i : 0..(GridLength - 1), contact : BOOLEAN]
  /\ tOut = ""
  /\ tOut2 = ""
  /\ jOut = <<>>
  /\ cOut = <<>>
  /\ gOut = NoBlast

registryIdle ==
  <<registryVars, customParticles, initialized, submitDisabled, requests, last>>

\* sanitizeActionCode, once and twice over
Sanitize ==
  /\ tStage = "input"
  /\ tIn \in TextInputs
  /\ tStage' = "sanitized"
  /\ tOut' = sanitizeActionCode(tIn)
  /\ tOut2' = sanitizeActionCode(sanitizeActionCode(tIn))
  /\ UNCHANGED <<tIn, tName, jIn, jOut, cIn, cOut, gIn, gOut, registryIdle>>

\* preprocessActionCode, called twice with the same arguments
Preprocess ==
  /\ tStage = "input"
  /\ tIn \in ShortFragments
  /\ tStage' = "preprocessed"
  /\ tOut' = preprocessActionCode(tIn, tName, TextColor)
  /\ tOut2' = preprocessActionCode(tIn, tName, TextColor)
  /\ UNCHANGED <<tIn, tName, jIn, jOut, cIn, cOut, gIn, gOut, registryIdle>>

\* particleData.color.map(...) of generateParticle
ClampColor ==
  /\ tStage = "json"
  /\ tStage' = "clamped"
  /\ jOut' = [k \in 1..3 |-> ClampChannel(jIn[k])]
  /\ UNCHANGED <<tIn, tName, tOut, tOut2, jIn, cIn, cOut, gIn, gOut, registryIdle>>

\* validateUniqueParticle on the test description with the name and color
\* under test
Validate ==
  /\ tStage = "color"
  /\ tStage' = "validated"
  /\ tOut' = validateUniqueParticleMessage([createTestParticle EXCEPT !.name = tName,
                                                                       !.color = cIn])
  /\ UNCHANGED <<tIn, tName, tOut2, jIn, jOut, cIn, cOut, gIn, gOut, registryIdle>>

\* adjustColorForUniqueness, and the branch it took
Adjust ==
  /\ tStage = "color"
  /\ tStage' = "adjusted"
  /\ cOut' = adjustColorForUniqueness(cIn, tName)
  /\ tOut' = adjustBranch(toUpperCase(tName))
  /\ UNCHANGED <<tIn, tName, tOut2, jIn, jOut, cIn, gIn, gOut, registryIdle>>

\* a call of the callable registerCustomParticle makes of FragEscapeFire
\* (lines 349 and 352), in which the fragment raises
Escape ==
  /\ tStage = "callable"
  /\ tStage' = "called"
  /\ LET Call(actionFn) ==
           /\ actionFn.compiles
           /\ tOut' = actionCallable(createSafeParticleAction(actionFn, tName),
                                     FALSE, TRUE, FALSE).effect
           /\ tOut2' = IF actionFunction(actionFn, FALSE, TRUE, FALSE).raised
                       THEN "outer" ELSE "inner"
     IN Then(Call, Compilation(tIn, tName, TextColor, FALSE))
  /\ UNCHANGED <<tIn, tName, jIn, jOut, cIn, cOut, gIn, gOut, registryIdle>>

\* the first step of preprocessActionCode alone
Enhance ==
  /\ tStage = "input"
  /\ tIn \in ShortFragments
  /\ tStage' = "enhanced"
  /\ tOut' = enhanceTrivial(tIn, Trim(tIn), tName, TextColor)
  /\ UNCHANGED <<tIn, tName, tOut2, jIn, jOut, cIn, cOut, gIn, gOut, registryIdle>>

\* the two places that dispatch on a name: the template choice of
\* enhanceCodeBasedOnName and the catch clause of createSafeParticleAction
Categorise ==
  /\ tStage = "name"
  /\ tStage' = "categorised"
  /\ tOut' = enhanceCategory(toUpperCase(tName))
  /\ tOut2' = NameFallback(tName)
  /\ UNCHANGED <<tIn, tName, jIn, jOut, cIn, cOut, gIn, gOut, registryIdle>>

\* the explosion template run at a cell of the grid
Explode ==
  /\ tStage = "cell"
  /\ tStage' = "exploded"
  /\ gOut' = explosionTemplateRun(gIn.i, GridWidth, GridLength, gIn.contact)
  /\ UNCHANGED <<tIn, tName, tOut, tOut2, jIn, jOut, cIn, cOut, gIn, registryIdle>>

NextText ==
  \/ Sanitize
  \/ Preprocess
  \/ ClampColor
  \/ Validate
  \/ Adjust
  \/ Escape
  \/ Enhance
  \/ Categorise
  \/ Explode

SpecText == InitText /\ [][NextText]_vars

(***************************************************************************)
(* The properties.                                                         *)
(***************************************************************************)
Registers == last'.op \in {"register", "test"}

\* C1: once a name has a colorId, every later registration of the name
\* returns that id and the lookup by name keeps returning it.
C1_IdStable ==
  [][\A n \in DOMAIN customElementColors :
       /\ getElementColorFromName(customElementColors', n) = customElementColors[n]
       /\ (Registers /\ last'.name = n /\ ~last'.threw) => last'.value = customElementColors[n]
    ]_vars

\* a name registered again, with an answer whose colour packs to another id
C1_Reregistered ==
  /\ last.op = "register"
  /\ last.path = "update"
  /\ ~last.threw
  /\ last.value = getElementColorFromName(customElementColors, last.name)
  /\ last.value # __inGameColor(last.answer.color[1], last.answer.color[2],
                                last.answer.color[3])

C3_FailedCompileLeavesRegistry ==
  [][(Registers /\ last'.path = "new" /\ last'.threw) =>
       /\ customElementColors' = customElementColors
       /\ menuNames' = menuNames
       /\ elements' = elements
       /\ elementActions' = elementActions
       /\ nextCustomElementIdx' = nextCustomElementIdx
    ]_vars

Faulty(answer) ==
  \/ ~answer.net
  \/ ~answer.ok
  \/ ~answer.json
  \/ answer.name = ""
  \/ answer.color = <<>>
  \/ answer.action_code = ""
  \/ Len(answer.color) # 3

\* C5: when generation fails the request is rejected and the registry and
\* the stored descriptions are as they were; a submission without an
\* initialised API changes nothing either.
C5_FailedGenerationLeavesState ==
  [][/\ (last'.op \in {"register", "genfailed"} /\ Faulty(last'.answer)) =>
          (last'.op = "genfailed" /\ UNCHANGED <<registryVars, customParticles>>)
     /\ last'.op = "refused" => UNCHANGED <<registryVars, customParticles, requests>>
    ]_vars

\* a request whose answer had a colour of two elements was rejected
C5_Rejected ==
  /\ last.op = "genfailed"
  /\ last.answer.ok
  /\ Len(last.answer.color) = 2
  /\ last.name \notin DOMAIN customParticles

\* C6: registering a known name replaces the callable of its id and nothing
\* else: name-to-id map, menu names, counter and engine lists are unchanged.
C6_UpdateReplacesOnlyCallable ==
  [][(Registers /\ last'.path = "update") =>
       /\ customElementColors' = customElementColors
       /\ menuNames' = menuNames
       /\ nextCustomElementIdx' = nextCustomElementIdx
       /\ elements' = elements
       /\ elementActions' = elementActions
       /\ \A id \in DOMAIN customElementActions :
            id # customElementColors[last'.name] =>
              customElementActions'[id] = customElementActions[id]
    ]_vars

\* a known name was registered again and the stored callable changed
C6_CallableReplaced ==
  /\ last.path = "update"
  /\ ~last.threw
  /\ \E k \in 1..Len(elements) : elementActions[k] # customElementActions[elements[k]]

\* the request that completed as the n-th
Nth(n) == CHOOSE k \in 1..Len(requests) : requests[k].order = n

Entries(id) == Cardinality({k \in 1..Len(elements) : elements[k] = id})

\* C7: after two overlapping requests for one name have completed and the
\* later one registered, the name has one colorId, one entry in the engine
\* lists, and the callable in effect is the later completion's; two
\* overlapping requests for different names both end up registered.
C7_LastWriterWins ==
  (/\ Len(requests) = 2
   /\ requests[2].concurrent
   /\ \A k \in 1..2 : requests[k].state # "pending"
   /\ last.op = "register" /\ ~last.threw) =>
    IF requests[2].overlaps
    THEN /\ requests[1].name \in DOMAIN customElementColors
         /\ Entries(customElementColors[requests[1].name]) = 1
         /\ customElementActions[customElementColors[requests[1].name]] = requests[Nth(2)].built
    ELSE (\A k \in 1..2 : requests[k].state = "registered") =>
           \A k \in 1..2 : /\ requests[k].name \in DOMAIN customElementColors
                           /\ customElementColors[requests[k].name]
                                \in DOMAIN customElementActions

\* C8: sanitizeActionCode is idempotent.
C8_SanitizeIdempotent == tStage = "sanitized" => tOut2 = tOut

\* a name of letters, digits and underscores that, in upper case, contains a
\* hair, gas or liquid keyword
KeywordName(name) ==
  /\ \A k \in 1..Len(name) : Ch(name, k) \in Word
  /\ \E k \in {"HAIR", "FUR", "STRING", "GAS", "SMOKE", "VAPOR", "STEAM", "WATER", "LIQUID",
               "OIL", "JUICE", "BLOOD"} : Includes(toUpperCase(name), k)

Branches(text) == text # "" /\ HasWord(text, "if")

LoopFragments == {f \in Fragments : HasWord(f, "while") \/ HasWord(f, "for")}

\* C10: a fragment with a while or for loop is accepted: with its loop heads
\* turned into conditionals it compiles and its registration succeeds.
C10_LoopsAccepted ==
  (last.op = "register" /\ last.answer.action_code \in LoopFragments) =>
    /\ ~last.threw
    /\ customElementActions[last.value].actionFn.compiles
\* C11: every call of a registered callable returns: no accepted fragment
\* keeps a call running for ever.
C11_CallsReturn == last.op = "invoke" => last.returned

\* C12: a newly registered name receives an id greater than every built-in
\* id and than every custom id allocated before it.
C12_IdsFromCounter ==
  [][(Registers /\ last'.path = "new" /\ ~last'.threw) =>
       /\ \A b \in BuiltinIds : last'.value > b
       /\ \A n \in DOMAIN customElementColors : last'.value > customElementColors[n]
    ]_vars

\* C13: the engine's element list and action list grow together, by one
\* entry per successful registration of a new name, the callable at the
\* position of its id; no entry is ever removed or moved.
C13_ListsParallel ==
  /\ Len(elements) = Len(elementActions)
  /\ [][/\ Len(elements') = Len(elementActions')
        /\ Len(elements') =
             Len(elements) + IF Registers /\ last'.path = "new" /\ ~last'.threw THEN 1 ELSE 0
        /\ SubSeq(elements', 1, Len(elements)) = elements
        /\ SubSeq(elementActions', 1, Len(elementActions)) = elementActions
        /\ Len(elements') > Len(elements) =>
             /\ elements'[Len(elements')] = last'.value
             /\ elementActions'[Len(elements')] = customElementActions'[last'.value]
       ]_vars

\* two names have been registered, one after the other
C13_TwoAppended ==
  /\ Len(elements) = 2
  /\ Len(elementActions) = 2
  /\ elementActions[1].particleName # elementActions[2].particleName

\* C14: a name is listed by getAllCustomParticles if and only if it has a
\* colorId and a callable in the registry.
C14_ListedIffRegistered ==
  \A n \in DOMAIN getAllCustomParticles \cup DOMAIN customElementColors :
    n \in DOMAIN getAllCustomParticles <=>
      (n \in DOMAIN customElementColors
       /\ customElementColors[n] \in DOMAIN customElementActions)

\* C15: every channel generateParticle makes of the answer's color is an
\* integer within 0..255, whatever the three values were.
C15_ChannelsInRange ==
  tStage = "clamped" =>
    /\ Len(jOut) = 3
    /\ \A k \in 1..3 : ~jOut[k].nan /\ jOut[k].n \in 0..255

TntColor == <<255, 60, 30>>

\* C16 as stated: TNT's color [255,60,30] is closer than 60 to FIRE
\* [255,0,10], the validator reports it invalid for that, and the adjuster
\* takes the fire-keyword branch.
C16_TntNearFire ==
  (cIn = TntColor /\ tName = "TNT") =>
    /\ TooSimilar(cIn, <<255, 0, 10>>)
    /\ tStage = "validated" => tOut = "Color [255,60,30] is too similar to FIRE [255,0,10]"
    /\ tStage = "adjusted" => tOut = "fire"

\* C16: TNT's color [255,60,30] is not closer than 60 to FIRE [255,0,10];
\* the validator reports it invalid for its distance to LAVA, and the
\* adjuster takes the general branch, which returns [51,207,231].
C16_TntNearLava ==
  (cIn = TntColor /\ tName = "TNT") =>
    /\ ~TooSimilar(cIn, <<255, 0, 10>>)
    /\ TooSimilar(cIn, <<245, 110, 40>>)
    /\ tStage = "validated" => tOut = "Color [255,60,30] is too similar to LAVA [245,110,40]"
    /\ tStage = "adjusted" => (tOut = "general" /\ cOut = <<51, 207, 231>>)

\* the adjuster has been applied to TNT's color
C16_TntAdjusted == tStage = "adjusted" /\ cIn = TntColor /\ tName = "TNT" /\ cOut # cIn

\* C17: the color adjustColorForUniqueness returns differs from its input.
C17_AdjustChanges == tStage = "adjusted" => cOut # cIn

\* C18: adjustColorForUniqueness returns three integer channels within
\* 0..255.
C18_AdjustInRange ==
  tStage = "adjusted" => (Len(cOut) = 3 /\ \A k \in 1..3 : cOut[k] \in 0..255)

\* a color was adjusted whose channels all had to be capped
C18_Capped ==
  /\ tStage = "adjusted"
  /\ tName = "CAMPFIRE"
  /\ cIn = <<255, 255, 255>>
  /\ cOut = <<255, 255, 255>>

\* C19: a raise of the fragment is caught by the inner layer, which applies
\* doGravity with chance 1.0 and nothing else; when the shortcut is taken
\* only doGravity with chance 0.9 runs.
C19_InnerLayerCatches ==
  last.op = "invoke" =>
    /\ last.run = "raises" => (last.effect = "doGravity 1.0" /\ ~last.threw)
    /\ last.run = "short" => last.effect = "doGravity 0.9"

\* the fallback C20 gives a name
FallbackByName(name) ==
  IF \E k \in {"TNT", "BOMB", "EXPLO"} : Includes(toUpperCase(name), k) THEN "FIRE"
  ELSE IF \E k \in {"WATER", "LIQUID"} : Includes(toUpperCase(name), k)
    THEN "doDensityLiquid"
  ELSE IF \E k \in {"GAS", "SMOKE"} : Includes(toUpperCase(name), k) THEN "doRise"
  ELSE "doGravity 0.8"

\* C20: when an exception leaves the compiled function, the callable
\* applies the one fallback of the first category its name matches:
\* explosive, liquid, gas, else gravity.
C20_FallbackByName ==
  (tStage = "called" /\ tOut2 = "outer") => tOut = FallbackByName(tName)

\* a name that is explosive and liquid got the explosive fallback
C20_ExplosiveFirst ==
  tStage = "called" /\ tOut2 = "outer" /\ tName = "TNTWATER" /\ tOut = "FIRE"

\* the description the registration that acted last was given
RegisteredDescription ==
  IF last.op = "test" THEN createTestParticle ELSE customParticles[last.name]

\* C24: every description that reaches registerCustomParticle is one that
\* generateParticle checked with validateUniqueParticle and stored: it is
\* the stored description of its name.
C24_RegisteredWereValidated ==
  last.op \in {"register", "test"} =>
    /\ last.name \in DOMAIN customParticles
    /\ customParticles[last.name] = RegisteredDescription

\* C26: for every registered custom id, the engine's action list holds, at
\* the position of the id, the callable the registry stores for the id.
C26_EngineCallsStored ==
  /\ \A k \in 1..Len(elements) :
       /\ elements[k] \in DOMAIN customElementActions
       /\ elementActions[k] = customElementActions[elements[k]]
  /\ \A id \in DOMAIN customElementActions : \E k \in 1..Len(elements) : elements[k] = id

\* C27: an id that registerCustomParticle returns is in the engine's
\* element list, with a callable at its position in the action list.
C27_ReturnedIdListed ==
  (last.op \in {"register", "test"} /\ ~last.threw) =>
    \E k \in 1..Len(elements) :
      /\ elements[k] = last.value
      /\ k \in 1..Len(elementActions)
      /\ elementActions[k] # NoCallable

\* the fragment given to the registration that acts does not compile as the
\* update of a known name
UpdateFailsToCompile ==
  /\ Registers
  /\ last'.name \in DOMAIN customElementColors
  /\ LET data == IF last'.op = "test" THEN createTestParticle
                 ELSE customParticles'[last'.name]
     IN ~Compilations[data.action_code, last'.name, customElementColors[last'.name],
                      TRUE].compiles

\* C28: when the fragment of a known name fails to compile,
\* registerCustomParticle throws and the registry is as before the call:
\* the name keeps its id and the id its callable.
C28_FailedUpdateKeepsRegistry ==
  [][UpdateFailsToCompile => (last'.threw /\ UNCHANGED registryVars)]_vars

\* a name that had a callable was registered again with a fragment that does
\* not compile
C28_UpdateRejected ==
  /\ last.op = "register"
  /\ last.path = "update"
  /\ last.threw
  /\ ~Compilations[last.answer.action_code, last.name, customElementColors[last.name],
                   TRUE].compiles
  /\ customElementColors[last.name] \in DOMAIN customElementActions
  /\ customElementActions[customElementColors[last.name]].actionFn.compiles

InFlight == {k \in 1..Len(requests) : requests[k].state = "pending"}

\* C30: the submit button is disabled exactly while a request is in flight,
\* and at most one request is in flight.
C30_OneInFlight ==
  /\ submitDisabled <=> InFlight # {}
  /\ Cardinality(InFlight) <= 1

\* a test of the neighbourhood for FIRE
FireContactCheck(text) ==
  \E call \in {"adjacent(x, i, FIRE)", "below(y, i, FIRE)", "above(y, i, FIRE)",
                "bordering(x, y, i, FIRE)"} : Includes(text, call)

\* C21: for a name with TNT, BOMB or EXPLO the fragment preprocessActionCode
\* returns has a fire-contact check and turns the cell to FIRE.
C21_ExplosivesReactive ==
  (tStage = "preprocessed" /\ IsExplosiveName(tName)) =>
    (FireContactCheck(tOut) /\ Includes(tOut, "gameImagedata32[i] = FIRE;"))

\* the cells next to cell i in its row and in its column
Orthogonal(i) ==
  {j \in 0..(GridLength - 1) :
     \/ j \div GridWidth = i \div GridWidth /\ (j = i - 1 \/ j = i + 1)
     \/ j % GridWidth = i % GridWidth /\ (j = i - GridWidth \/ j = i + GridWidth)}

\* C22: on fire contact the explosion template sets to FIRE only cell i and
\* orthogonal neighbours of i inside the buffer, and does not run the
\* fragment; without fire contact it runs the fragment and sets nothing.
C22_BlastOrthogonal ==
  tStage = "exploded" =>
    IF gIn.contact
    THEN gOut.writes \subseteq ({gIn.i} \cup Orthogonal(gIn.i)) /\ ~gOut.original
    ELSE gOut.writes = {} /\ gOut.original

\* the target C23 gives a neighbour write of that element
SafeTarget(elementName, name) ==
  IF elementName \in {"FIRE", "BACKGROUND"} THEN elementName
  ELSE IF elementName = toUpperCase(name) THEN ToString(TextColor)
  ELSE IF isKnownElement(elementName) THEN elementName
  ELSE "FIRE"

\* C23: after preprocessActionCode a neighbour write of an upper-case
\* identifier has a safe target: FIRE, BACKGROUND and built-in names stay,
\* the particle's own name becomes its id, any other identifier becomes
\* FIRE; the rest of the statement is as it was.
C23_NeighbourWritesSafe ==
  tStage = "preprocessed" =>
    \A o \in WriteOffsets : \A e \in WriteElements :
      tIn = WriteFragment(o, e) => Includes(tOut, WriteFragment(o, SafeTarget(e, tName)))

\* the first category of C25 that the name matches
FirstCategory(name) ==
  IF \E k \in {"HAIR", "FUR", "STRING"} : Includes(toUpperCase(name), k) THEN "hair"
  ELSE IF \E k \in {"GAS", "SMOKE", "VAPOR", "STEAM"} : Includes(toUpperCase(name), k)
    THEN "gas"
  ELSE IF \E k \in {"WATER", "LIQUID", "OIL", "JUICE", "BLOOD"} :
            Includes(toUpperCase(name), k)
    THEN "liquid"
  ELSE "none"

\* C25: a trivial fragment is replaced by the template of the first
\* category its name matches, in the order hair, gas, liquid; with a name
\* that matches none the triviality step returns the fragment as it was.
C25_FirstCategoryTemplate ==
  (tStage = "enhanced" /\ Len(Trim(tIn)) < TrivialLength) =>
    tOut = CASE FirstCategory(tName) = "hair" -> HairTemplate(tName, TextColor)
             [] FirstCategory(tName) = "gas" -> GasTemplate(tName)
             [] FirstCategory(tName) = "liquid" -> LiquidTemplate(tName, toUpperCase(tName))
             [] OTHER -> tIn

\* a trivial fragment of a name that is gas and liquid got the gas template
C25_GasBeforeLiquid ==
  /\ tStage = "enhanced"
  /\ tIn = ""
  /\ tName = "GASOIL"
  /\ tOut = GasTemplate("GASOIL")

\* C29: a name is given the same category wherever the code dispatches on
\* it: an explosive name gets the FIRE fallback, a name that gets the
\* liquid template the density-flow fallback, a name that gets the gas
\* template the rise fallback.
C29_SameCategoryEverywhere ==
  tStage = "categorised" =>
    IF IsExplosiveName(tName) THEN tOut2 = "FIRE"
    ELSE /\ tOut = "liquid" => tOut2 = "doDensityLiquid"
         /\ tOut = "gas" => tOut2 = "doRise"

====
